---------------------------- MODULE Spec2Model ----------------------------
(***************************************************************************)
(* A model of the openpuc_scrapers pipeline: the NYPUC row deduplication,  *)
(* the JSON persistence helper, the processing pipeline that walks a       *)
(* scraper through its two-phase contract, the two concrete scrapers and   *)
(* the attachment text ranking.                                            *)
(*                                                                         *)
(* Text is modelled as a TLA+ string where the code only copies or         *)
(* compares it, and as a sequence of one-character strings where the code  *)
(* parses it (date texts).  A Python exception is modelled as a result     *)
(* record whose status is "raise".                                         *)
(***************************************************************************)
EXTENDS Integers, Sequences, FiniteSets, TLC

VARIABLES
    \* deduplicate_individual_attachments_into_files and its callers
    raw_files,       \* the argument list of NYPUCFiling rows
    deduped_data,    \* the list the first call returned
    rededuped_data,  \* the list the call on deduped_data returned
    dedup_pc,        \* "input" | "deduped" | "rededuped" | "idle"
    \* save_json / save_to_disk
    disk,            \* the files written: a function from paths to their text
    save_data,       \* the data argument of the last save_json call
    save_path,       \* the path argument of the last save_json call
    save_outcome,    \* what the last save_json call did: returned or raised
    save_calls,      \* the number of save_json calls made
    \* get_highest_quality_text
    text_objects,    \* attach.text_objects: the text variants of one attachment
    rank_outcome,    \* what the call did: the text returned, or the error raised
    rank_pc,         \* "input" | "done" | "idle"
    \* one call of an entry point: get_all_cases, get_new_cases_since_date,
    \* process_cases, or an updated_cases_since_date_* method of the scraper
    scraper,         \* "dummy" | "ny"
    entry,           \* the entry point called
    after_date,      \* the cutoff date argument
    run_pc,          \* "acquire" | "acquired" | "call" | "processing" |
                     \* "returned" | "raised" | "idle"
    generated,       \* the acquisition loop's results so far
    caselist_intermediate,  \* the case-list (or updated-cases) intermediate
    state_cases,     \* the typed cases (of a direct call: the list returned)
    case_index,      \* the position of process_cases' loop in state_cases
    filing_counts,   \* per processed case, the number of filings parsed
    all_generic_cases,      \* the output accumulator of process_cases
    run_error,       \* the exception the call ended with, "" if none
    steps,           \* the steps executed, in order
    \* the methods of a scraper's contract, called one on the result of another
    con_scraper,     \* "dummy" | "ny"
    con_pc,          \* "caselist" | "cases" | "case_converted" |
                     \* "filing_intermediate" | "filings" | "filing_converted" |
                     \* "raised" | "idle"
    con_caselist,    \* a case-list intermediate
    con_cases,       \* what universal_caselist_from_intermediate returned
    con_case,        \* the state case handed to the next method
    con_filing_intermediate,  \* what filing_data_intermediate did
    con_filings,     \* what filing_data_from_intermediate did
    con_converted,   \* what into_generic_case_data / _filing_data did
    \* the per-case work of process_cases, one worker per case, interleaved
    par_scraper,     \* "dummy" | "ny"
    par_cases,       \* the typed cases, one worker each
    par_pc,          \* per worker: the step of the loop body it is at
                     \* (1..7), 8 once the body is done, 0 once a step raised
    par_targets,     \* per worker: the paths it has handed to save_json
    par_acquired,    \* per worker: what filing_data_intermediate returned
    par_output,      \* the common output accumulator
    \* process_docket / process_industry and their browser sessions
    br_call,         \* "process_docket" | "process_industry"
    br_pc,           \* "call" | "get" | "wait" | "find_table" | "return" |
                     \* "except" | "finally" | "returned" | "raised" | "idle"
    br_open,         \* the sessions (drivers) that are open
    br_started,      \* the number of sessions started so far
    br_calls,        \* the number of calls begun so far
    br_polls,        \* iterations of the overlay loop / waits passed
    br_fault,        \* the first exception raised inside the call, "" if none
    br_error,        \* the exception the call ended with, "" if none
    br_result        \* what the call returned

dedupVars == <<raw_files, deduped_data, rededuped_data, dedup_pc>>

saveVars == <<disk, save_data, save_path, save_outcome, save_calls>>

rankVars == <<text_objects, rank_outcome, rank_pc>>

runVars == <<scraper, entry, after_date, run_pc, generated, caselist_intermediate,
             state_cases, case_index, filing_counts, all_generic_cases, run_error,
             steps>>

contractVars == <<con_scraper, con_pc, con_caselist, con_cases, con_case,
                  con_filing_intermediate, con_filings, con_converted>>

parVars == <<par_scraper, par_cases, par_pc, par_targets, par_acquired, par_output>>

browserVars == <<br_call, br_pc, br_open, br_started, br_calls, br_polls, br_fault,
                 br_error, br_result>>

vars == <<raw_files, deduped_data, rededuped_data, dedup_pc,
          disk, save_data, save_path, save_outcome, save_calls,
          text_objects, rank_outcome, rank_pc,
          scraper, entry, after_date, run_pc, generated, caselist_intermediate,
          state_cases, case_index, filing_counts, all_generic_cases, run_error,
          steps,
          con_scraper, con_pc, con_caselist, con_cases, con_case,
          con_filing_intermediate, con_filings, con_converted,
          par_scraper, par_cases, par_pc, par_targets, par_acquired, par_output,
          br_call, br_pc, br_open, br_started, br_calls, br_polls, br_fault,
          br_error, br_result>>

\* What each specification leaves alone.
exceptDedup == <<saveVars, rankVars, runVars, contractVars, parVars, browserVars>>
exceptSave == <<dedupVars, rankVars, runVars, contractVars, parVars, browserVars>>
exceptRank == <<dedupVars, saveVars, runVars, contractVars, parVars, browserVars>>
exceptRun == <<dedupVars, rankVars, contractVars, parVars, browserVars,
               save_data, save_path, save_outcome, save_calls>>
exceptContract == <<dedupVars, saveVars, rankVars, runVars, parVars, browserVars>>
exceptParallel == <<dedupVars, rankVars, runVars, contractVars, browserVars,
                    save_data, save_path, save_outcome, save_calls>>
exceptBrowser == <<dedupVars, saveVars, rankVars, runVars, contractVars, parVars>>

---------------------------------------------------------------------------
(* Bounds of the model *)

MaxRows == 3
MaxSaves == 2
MaxTexts == 3
MaxCases == 3
MaxHtmlRows == 2
MaxContractCases == 2
MaxBrowserCalls == 4

---------------------------------------------------------------------------
(* Generic helpers *)

SeqsUpTo(S, n) == UNION {[1..k -> S] : k \in 0..n}

RECURSIVE FlattenSeq(_)
FlattenSeq(ss) == IF ss = <<>> THEN <<>> ELSE Head(ss) \o FlattenSeq(Tail(ss))

---------------------------------------------------------------------------
(* Python values.  Every object the persistence helper can be handed is a  *)
(* tagged record: its type tag is what isinstance tests.                   *)

PyStr(s) == [type |-> "str", s |-> s]
PyInt(n) == [type |-> "int", n |-> n]
\* datetime.date: days since an epoch.
PyDate(d) == [type |-> "date", d |-> d]
\* pydantic's Url object (the value of an HttpUrl field).
PyUrl(s) == [type |-> "url", s |-> s]
PyList(items) == [type |-> "list", items |-> items]
\* dict: its keys in insertion order and the value of each.
PyDict(keys, vals) == [type |-> "dict", keys |-> keys, vals |-> vals]
\* A pydantic BaseModel instance of class cls: its fields in declaration order.
PyModel(cls, keys, vals) == [type |-> "model", cls |-> cls, keys |-> keys, vals |-> vals]
\* A name that was never assigned.
PyUnbound == [type |-> "unbound"]

\* What a call does: it returns a value or raises an exception.
Returned(value) == [status |-> "ok", value |-> value, error |-> ""]
Raised(error) == [status |-> "raise", value |-> PyUnbound, error |-> error]

\* BaseModel.model_dump(): the field mapping, nested models dumped too; the
\* leaves (str, int, date) are kept as the Python objects they are.
RECURSIVE model_dump_value(_)
model_dump_value(v) ==
    CASE v.type = "model" ->
            PyDict(v.keys, [i \in 1..Len(v.vals) |-> model_dump_value(v.vals[i])])
      [] v.type = "dict" ->
            PyDict(v.keys, [i \in 1..Len(v.vals) |-> model_dump_value(v.vals[i])])
      [] v.type = "list" ->
            PyList([i \in 1..Len(v.items) |-> model_dump_value(v.items[i])])
      [] OTHER -> v

model_dump(item) == model_dump_value(item)

\* Only a BaseModel has a model_dump attribute.
HasModelDump(item) == item.type = "model"

\* json.dumps accepts dict, list, str and int; a date or a BaseModel object
\* is "not JSON serializable" (TypeError).
RECURSIVE JsonSerializable(_)
JsonSerializable(v) ==
    CASE v.type \in {"str", "int"} -> TRUE
      [] v.type = "list" -> \A i \in 1..Len(v.items) : JsonSerializable(v.items[i])
      [] v.type = "dict" -> \A i \in 1..Len(v.vals) : JsonSerializable(v.vals[i])
      [] OTHER -> FALSE

\* The JSON text of a serializable value, as a sequence of tokens (the
\* whitespace of indent=2 is left out).
RECURSIVE JsonText(_)
RECURSIVE JsonMembers(_, _)
RECURSIVE JsonElements(_)
JsonText(v) ==
    CASE v.type = "str" -> <<"\"", v.s, "\"">>
      [] v.type = "int" -> <<ToString(v.n)>>
      [] v.type = "list" -> <<"[">> \o JsonElements(v.items) \o <<"]">>
      [] v.type = "dict" -> <<"{">> \o JsonMembers(v.keys, v.vals) \o <<"}">>

JsonElements(items) ==
    IF items = <<>> THEN <<>>
    ELSE JsonText(Head(items))
         \o (IF Len(items) > 1 THEN <<",">> ELSE <<>>)
         \o JsonElements(Tail(items))

JsonMembers(keys, vals) ==
    IF keys = <<>> THEN <<>>
    ELSE <<"\"", Head(keys), "\"", ":">> \o JsonText(Head(vals))
         \o (IF Len(keys) > 1 THEN <<",">> ELSE <<>>)
         \o JsonMembers(Tail(keys), Tail(vals))

json_dumps(json_data) ==
    IF JsonSerializable(json_data)
    THEN [status |-> "ok", text |-> JsonText(json_data), error |-> ""]
    ELSE [status |-> "raise", text |-> <<>>, error |-> "TypeError"]

---------------------------------------------------------------------------
(* save_to_disk and save_json (generic_scraper.py) *)

\* Path.write_text after mkdir(parents=True, exist_ok=True): the file holds
\* exactly the new content, whether or not it existed.
save_to_disk(files, path, content) ==
    [p \in DOMAIN files \cup {path} |-> IF p = path THEN content ELSE files[p]]

NoFiles == [p \in {} |-> <<>>]

\* The three `if` statements of save_json, in the order of the code.  The
\* first two are plain `if`s; the `else` belongs to the third alone.
json_data_after_dict(data) ==
    IF data.type = "dict" THEN data ELSE PyUnbound

json_data_after_model(data) ==
    IF data.type = "model" THEN model_dump(data) ELSE json_data_after_dict(data)

json_data_after_list(data) ==
    LET before == json_data_after_model(data)
    IN  IF data.type = "list"
        THEN IF \A i \in 1..Len(data.items) : HasModelDump(data.items[i])
             THEN [status |-> "ok", error |-> "",
                   json_data |-> PyList([i \in 1..Len(data.items) |->
                                            model_dump(data.items[i])])]
             ELSE [status |-> "raise", json_data |-> before,
                   error |-> "AttributeError"]
        ELSE [status |-> "raise", json_data |-> before, error |-> "Exception"]

\* save_json(path, data) on the files `files`: the outcome and the files after.
save_json(files, path, data) ==
    LET picked == json_data_after_list(data)
        dumped == json_dumps(picked.json_data)
    IN  IF picked.status = "raise"
        THEN [status |-> "raise", error |-> picked.error, files |-> files]
        ELSE IF dumped.status = "raise"
        THEN [status |-> "raise", error |-> dumped.error, files |-> files]
        ELSE [status |-> "ok", error |-> "",
              files |-> save_to_disk(files, path, dumped.text)]

---------------------------------------------------------------------------
(* NYPUC typed objects (ny.py) *)

\* One element of a filing's attachements list.  The list is declared
\* List[NYPUCAttachment], but list.append accepts any object, so an element is
\* either an attachment (kind "attachment") or a whole list of elements
\* (kind "list", its elements in inner).
NYPUCAttachment(name, url) ==
    [kind |-> "attachment", name |-> name, url |-> url, inner |-> <<>>]

AttachmentList(elems) == [kind |-> "list", name |-> "", url |-> "", inner |-> elems]

\* NYPUCFiling: every field has a default ([] or "").
NYPUCFiling(attachements, serial, date_filed, nypuc_doctype, name, organization, itemNo, docket_id) ==
    [attachements |-> attachements, serial |-> serial, date_filed |-> date_filed,
     nypuc_doctype |-> nypuc_doctype, name |-> name, organization |-> organization,
     itemNo |-> itemNo, docket_id |-> docket_id]

NYPUCDocket(docket_id, matter_type, matter_subtype, title, organization, date_filed, industry_affected) ==
    [docket_id |-> docket_id, matter_type |-> matter_type,
     matter_subtype |-> matter_subtype, title |-> title,
     organization |-> organization, date_filed |-> date_filed,
     industry_affected |-> industry_affected]

ItemNos == {"12", "13"}
DocketIds == {"D1", "D2"}
Serials == {"s1", "s2"}
AttachmentNames == {"A", "B"}

\* The date texts the site's cells may hold, one character per element:
\* "01/02/2024", "", "2024-01-02" and "02/30/2024".
DateTexts ==
    {<<"0", "1", "/", "0", "2", "/", "2", "0", "2", "4">>,
     <<>>,
     <<"2", "0", "2", "4", "-", "0", "1", "-", "0", "2">>,
     <<"0", "2", "/", "3", "0", "/", "2", "0", "2", "4">>}

ValidDateText == <<"0", "1", "/", "0", "2", "/", "2", "0", "2", "4">>

RawRows ==
    {NYPUCFiling(a, s, ValidDateText, "Plans", "", "Utility", i, d) :
        a \in {<<>>} \cup {<<NYPUCAttachment(n, "https://dps.ny.gov/doc")>> :
                                n \in AttachmentNames},
        s \in Serials, i \in ItemNos, d \in DocketIds}

---------------------------------------------------------------------------
(* datetime.strptime(text, "%m/%d/%Y") (ny.py: combine_dockets and the two *)
(* NYPUC converters).  The text is a sequence of characters.               *)

Digits == {"0", "1", "2", "3", "4", "5", "6", "7", "8", "9"}

DigitValue(c) ==
    CASE c = "0" -> 0 [] c = "1" -> 1 [] c = "2" -> 2 [] c = "3" -> 3 [] c = "4" -> 4
      [] c = "5" -> 5 [] c = "6" -> 6 [] c = "7" -> 7 [] c = "8" -> 8 [] c = "9" -> 9

RECURSIVE DecimalValue(_)
DecimalValue(cs) ==
    IF cs = <<>> THEN 0
    ELSE DecimalValue(SubSeq(cs, 1, Len(cs) - 1)) * 10 + DigitValue(cs[Len(cs)])

AllDigits(cs) == \A i \in 1..Len(cs) : cs[i] \in Digits

IsLeapYear(y) == (y % 4 = 0 /\ y % 100 # 0) \/ y % 400 = 0

DaysInMonth(y, m) ==
    IF m = 2 THEN (IF IsLeapYear(y) THEN 29 ELSE 28)
    ELSE IF m \in {4, 6, 9, 11} THEN 30 ELSE 31

\* %m is 1[0-2]|0[1-9]|[1-9]; %d is 3[01]|[12]\d|0[1-9]|[1-9]| [1-9]; %Y is four
\* digits; the whole text must match, and datetime then rejects year 0 and a
\* day the month does not have.  Every failure is a ValueError.
strptime_mdY(text) ==
    LET slashes == {i \in 1..Len(text) : text[i] = "/"}
    IN  IF Cardinality(slashes) # 2
        THEN [status |-> "raise", error |-> "ValueError", date |-> [year |-> 0, month |-> 0, day |-> 0]]
        ELSE
        LET s1 == CHOOSE i \in slashes : \A j \in slashes : i <= j
            s2 == CHOOSE i \in slashes : \A j \in slashes : j <= i
            mm == SubSeq(text, 1, s1 - 1)
            dd0 == SubSeq(text, s1 + 1, s2 - 1)
            dd == IF Len(dd0) = 2 /\ dd0[1] = " " THEN Tail(dd0) ELSE dd0
            yy == SubSeq(text, s2 + 1, Len(text))
            shaped == /\ Len(mm) \in {1, 2} /\ AllDigits(mm)
                      /\ Len(dd) \in {1, 2} /\ AllDigits(dd)
                      /\ Len(yy) = 4 /\ AllDigits(yy)
            m == DecimalValue(mm)
            d == DecimalValue(dd)
            y == DecimalValue(yy)
        IN  IF /\ shaped
               /\ m \in 1..12
               /\ y >= 1
               /\ d \in 1..DaysInMonth(y, m)
            THEN [status |-> "ok", error |-> "", date |-> [year |-> y, month |-> m, day |-> d]]
            ELSE [status |-> "raise", error |-> "ValueError",
                  date |-> [year |-> 0, month |-> 0, day |-> 0]]

---------------------------------------------------------------------------
(* deduplicate_individual_attachments_into_files (ny.py) *)

\* f"itemnum-{file.itemNo}-caseid-{file.docket_id}"
make_dedupe_string(file) == <<"itemnum-", file.itemNo, "-caseid-", file.docket_id>>

\* dict_nypuc is an insertion-ordered dict: a sequence of key/value entries.
DictHas(dict, key) == \E i \in 1..Len(dict) : dict[i].key = key

DictValues(dict) == [i \in 1..Len(dict) |-> dict[i].value]

\* A loop body that also stores the first row of a key, and appends the row's
\* attachment list whether or not the key was already present.
DedupLoopBodyStoreAndAppend(dict_nypuc, file) ==
    LET dedupestr == make_dedupe_string(file)
        stored == IF DictHas(dict_nypuc, dedupestr) THEN dict_nypuc
                  ELSE Append(dict_nypuc, [key |-> dedupestr, value |-> file])
    IN  [i \in 1..Len(stored) |->
            IF stored[i].key = dedupestr
            THEN [stored[i] EXCEPT !.value.attachements =
                                      Append(@, AttachmentList(file.attachements))]
            ELSE stored[i]]

\* The body of `for file in raw_files`: when the key is present, the row's whole
\* attachements list is appended as ONE element; there is no branch that stores
\* a row whose key is absent.
DedupLoopBody(dict_nypuc, file) ==
    LET dedupestr == make_dedupe_string(file)
    IN  IF DictHas(dict_nypuc, dedupestr)
        THEN [i \in 1..Len(dict_nypuc) |->
                IF dict_nypuc[i].key = dedupestr
                THEN [dict_nypuc[i] EXCEPT !.value.attachements =
                                      Append(@, AttachmentList(file.attachements))]
                ELSE dict_nypuc[i]]
        ELSE dict_nypuc

RECURSIVE DedupLoop(_, _)
DedupLoop(dict_nypuc, files) ==
    IF files = <<>> THEN dict_nypuc
    ELSE DedupLoop(DedupLoopBody(dict_nypuc, Head(files)), Tail(files))

deduplicate_individual_attachments_into_files(files) ==
    DictValues(DedupLoop(<<>>, files))

---------------------------------------------------------------------------
(* HTML as BeautifulSoup sees it.  A str that holds HTML source carries    *)
(* its element tree in the field markup; any other str parses to a         *)
(* document without elements.                                              *)

\* <a>: present or not, its text, and its href attribute (present or not).
Link(text, has_href, href) ==
    [present |-> TRUE, text |-> text, has_href |-> has_href, href |-> href]
NoLink == [present |-> FALSE, text |-> "", has_href |-> FALSE, href |-> ""]

\* <td>: its text and the first <a> inside it.
Cell(text, link) == [text |-> text, link |-> link]

\* <tr>: its role attribute and its <td> cells.
Row(role, cells) == [role |-> role, cells |-> cells]

\* A <table id=...> element (table_id "" when the source holds no <table>),
\* with or without a <tbody>, and the <tr> rows.
Markup(table_id, has_tbody, rows) ==
    [table_id |-> table_id, has_tbody |-> has_tbody, rows |-> rows]

\* The str's text is the source of the tree.
PyHtml(markup) == [type |-> "str", s |-> markup, markup |-> markup]

\* BeautifulSoup(text, "html.parser")
BeautifulSoup(text) ==
    IF "markup" \in DOMAIN text THEN text.markup ELSE Markup("", FALSE, <<>>)

\* dict[key]
DictGet(dict, key) == dict.vals[CHOOSE i \in 1..Len(dict.keys) : dict.keys[i] = key]

---------------------------------------------------------------------------
(* Generic records (models/case.py, models/filing.py, models/attachment.py, *)
(* models/timestamp.py)                                                    *)

GenericCase(case_number, case_type, description, industry, petitioner, opened_date, extra_metadata) ==
    [case_number |-> case_number, case_type |-> case_type,
     description |-> description, industry |-> industry, petitioner |-> petitioner,
     opened_date |-> opened_date, extra_metadata |-> extra_metadata]

GenericFiling(filed_date, party_name, filing_type, description, attachments, extra_metadata) ==
    [filed_date |-> filed_date, party_name |-> party_name,
     filing_type |-> filing_type, description |-> description,
     attachments |-> attachments, extra_metadata |-> extra_metadata]

GenericAttachment(name, url) == [name |-> name, url |-> url]

\* HttpUrl(text): pydantic accepts an absolute http(s) URL and raises a
\* validation error for anything else.
AbsoluteUrls == {"https://dps.ny.gov/doc", "https://dummy.com/docs/1000.pdf"}
HttpUrlValid(text) == text \in AbsoluteUrls

\* date_to_rfctime: the timestamp of the start of the day.
date_to_rfctime(day) == [day |-> day, second |-> 0]

---------------------------------------------------------------------------
(* DummyScraper (dummy.py) *)

\* DummyCaseData: status and industry have the defaults "open", "utilities".
DummyCaseData(case_number, description, opened_date) ==
    [case_number |-> case_number, description |-> description,
     opened_date |-> opened_date, status |-> "open", industry |-> "utilities"]

DummyAttachment(document_title, url) ==
    [document_title |-> document_title, url |-> url,
     file_format |-> "pdf", document_type |-> "filing"]

DummyFilingData(filing_id, case_number, date_filed, description, attachments) ==
    [filing_id |-> filing_id, case_number |-> case_number, date_filed |-> date_filed,
     description |-> description, attachments |-> attachments,
     filing_type |-> "test_filing"]

\* The records as BaseModel objects: opened_date and date_filed are dates.
DummyCaseObject(case) ==
    PyModel("DummyCaseData",
            <<"case_number", "description", "opened_date", "status", "industry">>,
            <<PyStr(case.case_number), PyStr(case.description),
              PyDate(case.opened_date), PyStr(case.status), PyStr(case.industry)>>)

DummyAttachmentObject(att) ==
    PyModel("DummyAttachment",
            <<"document_title", "url", "file_format", "document_type">>,
            <<PyStr(att.document_title), PyUrl(att.url), PyStr(att.file_format),
              PyStr(att.document_type)>>)

DummyFilingObject(filing) ==
    PyModel("DummyFilingData",
            <<"filing_id", "case_number", "date_filed", "description", "attachments",
              "filing_type">>,
            <<PyStr(filing.filing_id), PyStr(filing.case_number),
              PyDate(filing.date_filed), PyStr(filing.description),
              PyList([i \in 1..Len(filing.attachments) |->
                         DummyAttachmentObject(filing.attachments[i])]),
              PyStr(filing.filing_type)>>)

\* DummyCaseData(**c), DummyAttachment(**a), DummyFilingData(**f): each field
\* from the dict's value for its key.
DummyCaseDataFromDict(c) ==
    [case_number |-> DictGet(c, "case_number").s,
     description |-> DictGet(c, "description").s,
     opened_date |-> DictGet(c, "opened_date").d,
     status |-> DictGet(c, "status").s,
     industry |-> DictGet(c, "industry").s]

DummyAttachmentFromDict(a) ==
    [document_title |-> DictGet(a, "document_title").s,
     url |-> DictGet(a, "url").s,
     file_format |-> DictGet(a, "file_format").s,
     document_type |-> DictGet(a, "document_type").s]

DummyFilingDataFromDict(f) ==
    [filing_id |-> DictGet(f, "filing_id").s,
     case_number |-> DictGet(f, "case_number").s,
     date_filed |-> DictGet(f, "date_filed").d,
     description |-> DictGet(f, "description").s,
     attachments |-> [i \in 1..Len(DictGet(f, "attachments").items) |->
                         DummyAttachmentFromDict(DictGet(f, "attachments").items[i])],
     filing_type |-> DictGet(f, "filing_type").s]

\* What randint and Faker may draw: two of the 9000 case numbers, two of the
\* filing ids, three days.
DummyCaseNumbers == {"DUMMY-1000", "DUMMY-1001"}
DummyFilingIds == {"FILING-10000", "FILING-10001"}
Days == {1, 2, 3}

\* range(10) in universal_caselist_intermediate; randint(1, 5) in
\* filing_data_intermediate.
DummyCaseCount == 10
DummyMinFilings == 1
DummyMaxFilings == 5

\* _generate_dummy_filing(case) with the drawn filing id.
generate_dummy_filing(case, filing_id) ==
    DummyFilingData(filing_id, case.case_number, 1, "sentence",
                    <<DummyAttachment("catch phrase", "https://dummy.com/docs/1000.pdf")>>)

\* {"cases": [case.model_dump() ...]}
Dummy_caselist_intermediate_of(cases) ==
    PyDict(<<"cases">>,
           <<PyList([i \in 1..Len(cases) |-> model_dump(DummyCaseObject(cases[i]))])>>)

Dummy_universal_caselist_from_intermediate(intermediate) ==
    LET cases == DictGet(intermediate, "cases").items
    IN  [i \in 1..Len(cases) |-> DummyCaseDataFromDict(cases[i])]

\* {"case": data.model_dump(), "filings": [filing.model_dump() ...]}
Dummy_filing_data_intermediate_of(data, filings) ==
    PyDict(<<"case", "filings">>,
           <<model_dump(DummyCaseObject(data)),
             PyList([i \in 1..Len(filings) |-> model_dump(DummyFilingObject(filings[i]))])>>)

Dummy_filing_data_from_intermediate(intermediate) ==
    LET filings == DictGet(intermediate, "filings").items
    IN  [status |-> "ok", error |-> "",
         value |-> [i \in 1..Len(filings) |-> DummyFilingDataFromDict(filings[i])]]

\* c.opened_date >= after_date
OpenedOnOrAfter(opened_date, cutoff) == opened_date >= cutoff

\* c.opened_date > after_date
OpenedAfter(opened_date, cutoff) == opened_date > cutoff

Dummy_updated_cases_since_date_from_intermediate(intermediate, cutoff) ==
    [status |-> "ok", error |-> "",
     value |-> SelectSeq(Dummy_universal_caselist_from_intermediate(intermediate),
                         LAMBDA c : OpenedAfter(c.opened_date, cutoff))]

Dummy_into_generic_case_data(state_data) ==
    [status |-> "ok", error |-> "",
     case_number |-> state_data.case_number,
     value |-> GenericCase(state_data.case_number, "dummy_case",
                           state_data.description, state_data.industry, "",
                           date_to_rfctime(state_data.opened_date),
                           <<state_data.status>>)]

Dummy_into_generic_filing_data(state_data) ==
    [status |-> "ok", error |-> "",
     value |-> GenericFiling(date_to_rfctime(state_data.date_filed), "",
                             state_data.filing_type, state_data.description,
                             [i \in 1..Len(state_data.attachments) |->
                                 GenericAttachment(state_data.attachments[i].document_title,
                                                   state_data.attachments[i].url)],
                             <<state_data.filing_id>>)]

---------------------------------------------------------------------------
(* NYPUCScraper: parsing (ny.py) *)

\* The NYPUCDocket as a BaseModel object: all its fields are str.
NYPUCDocketObject(docket) ==
    PyModel("NYPUCDocket",
            <<"docket_id", "matter_type", "matter_subtype", "title", "organization",
              "date_filed", "industry_affected">>,
            <<PyStr(docket.docket_id), PyStr(docket.matter_type),
              PyStr(docket.matter_subtype), PyStr(docket.title),
              PyStr(docket.organization), PyStr(docket.date_filed),
              PyStr(docket.industry_affected)>>)

NYPUCAttachmentObject(att) ==
    IF att.kind = "list" THEN PyList(<<>>)
    ELSE PyModel("NYPUCAttachment", <<"name", "url", "file_name">>,
                 <<PyStr(att.name), PyStr(att.url), PyStr("")>>)

NYPUCFilingObject(filing) ==
    PyModel("NYPUCFiling",
            <<"attachements", "serial", "date_filed", "nypuc_doctype", "name",
              "organization", "itemNo", "docket_id">>,
            <<PyList([i \in 1..Len(filing.attachements) |->
                         NYPUCAttachmentObject(filing.attachements[i])]),
              PyStr(filing.serial), PyStr(filing.date_filed),
              PyStr(filing.nypuc_doctype), PyStr(filing.name),
              PyStr(filing.organization), PyStr(filing.itemNo),
              PyStr(filing.docket_id)>>)

\* One row of extract_docket_info: a row with fewer than 6 cells is passed
\* over, and so is one whose first cell holds no <a> (cells[0].find("a") is
\* None, the AttributeError is caught).
DocketRowParses(row) ==
    /\ Len(row.cells) >= 6
    /\ row.cells[1].link.present

DocketOfRow(row, industry) ==
    NYPUCDocket(row.cells[1].link.text, row.cells[2].text, row.cells[3].text,
                row.cells[5].text, row.cells[6].text, row.cells[4].text, industry)

RECURSIVE DocketsOfRows(_, _)
DocketsOfRows(rows, industry) ==
    IF rows = <<>> THEN <<>>
    ELSE (IF DocketRowParses(Head(rows))
          THEN <<DocketOfRow(Head(rows), industry)>> ELSE <<>>)
         \o DocketsOfRows(Tail(rows), industry)

\* extract_docket_info(intermediate): the rows are the <tr role="row">.
extract_docket_info(intermediate) ==
    LET soup == BeautifulSoup(DictGet(intermediate, "html"))
        rows == SelectSeq(soup.rows, LAMBDA r : r.role = "row")
    IN  DocketsOfRows(rows, DictGet(intermediate, "industry").s)

\* One row of extract_rows: fewer than 7 cells, or no <a> in the fourth
\* cell: skipped; an <a> without href: the KeyError is caught and the row is
\* dropped.  The keyword `attachment` names no field of NYPUCFiling, which
\* ignores it: attachements and name keep their defaults.
FilingRowParses(row) ==
    /\ Len(row.cells) >= 7
    /\ row.cells[4].link.present
    /\ row.cells[4].link.has_href

FilingOfRow(row, case) ==
    NYPUCFiling(<<>>, row.cells[1].text, row.cells[2].text, row.cells[3].text, "",
                row.cells[5].text, row.cells[6].text, case)

RECURSIVE FilingsOfRows(_, _)
FilingsOfRows(rows, case) ==
    IF rows = <<>> THEN <<>>
    ELSE (IF FilingRowParses(Head(rows))
          THEN <<FilingOfRow(Head(rows), case)>> ELSE <<>>)
         \o FilingsOfRows(Tail(rows), case)

---------------------------------------------------------------------------
(* NYPUCScraper: extract_rows and the contract methods (ny.py) *)

\* extract_rows(table_html, case)
extract_rows(table_html, case) ==
    LET soup == BeautifulSoup(table_html)
        rows == IF soup.has_tbody THEN soup.rows ELSE <<>>
    IN  IF soup.table_id # "tblPubDoc" THEN <<>>
        ELSE deduplicate_individual_attachments_into_files(FilingsOfRows(rows, case))

\* `docket_id, html = intermediate`: unpacking a dict iterates over its KEYS,
\* so the two names are bound to the key strings, not to the values (and a
\* dict without exactly two keys raises ValueError).
UnpackPair(dict) == <<PyStr(dict.keys[1]), PyStr(dict.keys[2])>>

NY_universal_caselist_from_intermediate(intermediate) ==
    LET intermediate_list == DictGet(intermediate, "industry_intermediates").items
    IN  FlattenSeq([i \in 1..Len(intermediate_list) |->
                       extract_docket_info(intermediate_list[i])])

NY_filing_data_from_intermediate(intermediate) ==
    IF Len(intermediate.keys) # 2
    THEN [status |-> "raise", error |-> "ValueError", value |-> <<>>]
    ELSE LET pair == UnpackPair(intermediate)
             docket_id == pair[1]
             html == pair[2]
         IN  [status |-> "ok", error |-> "", value |-> extract_rows(html, docket_id.s)]

\* An unsupported capability answered with an empty intermediate.
NY_updated_cases_returns_empty(cutoff) ==
    [status |-> "ok", error |-> "", value |-> PyDict(<<>>, <<>>)]

\* updated_cases_since_date_intermediate / _from_intermediate:
\* raise Exception("Not Impelemented")
NY_updated_cases_since_date_intermediate(cutoff) ==
    [status |-> "raise", error |-> "Exception", value |-> PyDict(<<>>, <<>>)]

NY_updated_cases_since_date_from_intermediate(intermediate, cutoff) ==
    [status |-> "raise", error |-> "Exception", value |-> <<>>]

NY_into_generic_case_data(state_data) ==
    LET parsed == strptime_mdY(state_data.date_filed)
    IN  IF parsed.status = "raise"
        THEN [status |-> "raise", error |-> parsed.error, case_number |-> ""]
        ELSE [status |-> "ok", error |-> "",
              case_number |-> state_data.docket_id,
              value |-> GenericCase(state_data.docket_id,
                           <<state_data.matter_type, " - ", state_data.matter_subtype>>,
                           state_data.title, state_data.industry_affected,
                           state_data.organization, parsed.date,
                           <<state_data.matter_type, state_data.matter_subtype>>)]

\* The attachments comprehension reads att.name and att.url of every element
\* (a nested list has neither: AttributeError) and validates the URL.
NY_into_generic_filing_data(state_data) ==
    LET parsed == strptime_mdY(state_data.date_filed)
        atts == state_data.attachements
    IN  IF parsed.status = "raise"
        THEN [status |-> "raise", error |-> parsed.error]
        ELSE IF \E i \in 1..Len(atts) : atts[i].kind = "list"
        THEN [status |-> "raise", error |-> "AttributeError"]
        ELSE IF \E i \in 1..Len(atts) : ~HttpUrlValid(atts[i].url)
        THEN [status |-> "raise", error |-> "ValidationError"]
        ELSE [status |-> "ok", error |-> "",
              value |-> GenericFiling(parsed.date, state_data.organization,
                           state_data.nypuc_doctype, state_data.name,
                           [i \in 1..Len(atts) |->
                               GenericAttachment(atts[i].name, atts[i].url)],
                           <<>>)]

---------------------------------------------------------------------------
(* Attachment text ranking (raw_attachment_handling.py) *)

\* AttachmentTextQuality: low = 0, high = 1.
QualityValue(quality) == IF quality = "high" THEN 1 ELSE 0

\* RawAttachmentText: the four declared fields.  The timestamp is a whole
\* number of TimeUnit seconds since the epoch.
RawAttachmentText(quality, language, text, timestamp) ==
    [quality |-> quality, language |-> language, text |-> text, timestamp |-> timestamp]

\* 2^32 seconds, the divisor of attach_ranker, in TimeUnit = 2^20 seconds (TLC's
\* integers are 32 bits wide, so seconds are counted in units of 2^20).
TimestampDivisor == 4096

\* Attribute lookup on a pydantic model: a name that is no declared field
\* raises AttributeError.
HasAttribute(object, name) == name \in DOMAIN object

\* The attribute attach_ranker reads the time from: att.time.
RankerTimeAttribute == "time"

\* quality.value + timestamp / 2^32, as the exact integer score * 2^32.
ScaledScore(quality, timestamp) == QualityValue(quality) * TimestampDivisor + timestamp

\* attach_ranker(att): the score, or the AttributeError of att.time.
attach_ranker(att) ==
    IF HasAttribute(att, RankerTimeAttribute)
    THEN [status |-> "ok", error |-> "",
          score |-> ScaledScore(att.quality, att[RankerTimeAttribute])]
    ELSE [status |-> "raise", error |-> "AttributeError", score |-> 0]

\* max(iterable, key=...) over the keys of the elements: the index of the
\* first element whose key no other exceeds.
MaxByKey(keys) ==
    CHOOSE i \in 1..Len(keys) :
        /\ \A j \in 1..Len(keys) : keys[j] <= keys[i]
        /\ \A j \in 1..(i - 1) : keys[j] < keys[i]

\* get_highest_quality_text(attach): max() raises ValueError on an empty list,
\* and an exception of the key function propagates.
get_highest_quality_text(texts) ==
    IF texts = <<>>
    THEN [status |-> "raise", text |-> "", error |-> "ValueError"]
    ELSE IF \E i \in 1..Len(texts) : attach_ranker(texts[i]).status = "raise"
    THEN [status |-> "raise", text |-> "", error |-> "AttributeError"]
    ELSE [status |-> "ok", error |-> "",
          text |-> texts[MaxByKey([i \in 1..Len(texts) |->
                                      attach_ranker(texts[i]).score])].text]

---------------------------------------------------------------------------
(* The processing pipeline (generic_scraper.py), over the two scrapers *)

Scrapers == {"dummy", "ny"}

into_generic_case_data(name, state_data) ==
    IF name = "dummy" THEN Dummy_into_generic_case_data(state_data)
    ELSE NY_into_generic_case_data(state_data)

into_generic_filing_data(name, state_data) ==
    IF name = "dummy" THEN Dummy_into_generic_filing_data(state_data)
    ELSE NY_into_generic_filing_data(state_data)

filing_data_from_intermediate(name, intermediate) ==
    IF name = "dummy" THEN Dummy_filing_data_from_intermediate(intermediate)
    ELSE NY_filing_data_from_intermediate(intermediate)

universal_caselist_from_intermediate(name, intermediate) ==
    IF name = "dummy" THEN Dummy_universal_caselist_from_intermediate(intermediate)
    ELSE NY_universal_caselist_from_intermediate(intermediate)

updated_cases_since_date_from_intermediate(name, intermediate, cutoff) ==
    IF name = "dummy"
    THEN Dummy_updated_cases_since_date_from_intermediate(intermediate, cutoff)
    ELSE NY_updated_cases_since_date_from_intermediate(intermediate, cutoff)

StateCaseObject(name, case) ==
    IF name = "dummy" THEN DummyCaseObject(case) ELSE NYPUCDocketObject(case)

StateFilingObject(name, filing) ==
    IF name = "dummy" THEN DummyFilingObject(filing) ELSE NYPUCFilingObject(filing)

\* The paths under base_path = data/<timestamp>.
CaselistPath == <<"data", "caselist.json">>
UpdatedPath == <<"data", "updated_cases.json">>
CasePath(case_num) == <<"data", "cases", case_num>>
FilingsPath(case_num) == <<"data", "filings", case_num>>

\* The steps of one iteration of process_cases' loop, in the order of the code.
IterationSteps ==
    <<"into_generic_case_data", "save_case", "filing_data_intermediate",
      "save_filing_intermediate", "filing_data_from_intermediate", "save_filings",
      "into_generic_filing_data">>

\* How one iteration ends when its n-th step raises: the files as they were
\* before that step, nothing added to the output.
IterationRaised(error, files, n) ==
    [status |-> "raise", error |-> error, files |-> files, filings |-> 0,
     generic |-> <<>>, steps |-> SubSeq(IterationSteps, 1, n)]

\* case_num = generic_case.case_number
CaseNum(name, case) == into_generic_case_data(name, case).case_number

\* save_json(case_path, case)
CaseSaved(name, case, files) ==
    save_json(files, CasePath(CaseNum(name, case)), StateCaseObject(name, case))

\* save_json(filings_path, filings_intermediate)
RawSaved(name, case, files, acquired) ==
    save_json(CaseSaved(name, case, files).files, FilingsPath(CaseNum(name, case)),
              acquired.value)

\* save_json(filings_json_path, filings): the same path as the intermediate.
FilingsSaved(name, case, files, acquired) ==
    save_json(RawSaved(name, case, files, acquired).files,
              FilingsPath(CaseNum(name, case)),
              PyList([i \in 1..Len(filing_data_from_intermediate(name, acquired.value).value) |->
                         StateFilingObject(name,
                             filing_data_from_intermediate(name, acquired.value).value[i])]))

\* scraper.into_generic_filing_data(filing) for every filing, in order.
Converted(name, filings) ==
    [i \in 1..Len(filings) |-> into_generic_filing_data(name, filings[i])]

\* The error of the first conversion that raises.
FirstConversionError(converted) ==
    converted[CHOOSE i \in 1..Len(converted) :
                 /\ converted[i].status = "raise"
                 /\ \A j \in 1..(i - 1) : converted[j].status = "ok"].error

\* The body of `for case in cases` for one case; acquired is what
\* scraper.filing_data_intermediate(case) does when it is called.
ProcessCaseBody(name, case, files, acquired) ==
    IF into_generic_case_data(name, case).status = "raise"
    THEN IterationRaised(into_generic_case_data(name, case).error, files, 1)
    ELSE IF CaseSaved(name, case, files).status = "raise"
    THEN IterationRaised(CaseSaved(name, case, files).error, files, 2)
    ELSE IF acquired.status = "raise"
    THEN IterationRaised(acquired.error, CaseSaved(name, case, files).files, 3)
    ELSE IF RawSaved(name, case, files, acquired).status = "raise"
    THEN IterationRaised(RawSaved(name, case, files, acquired).error,
                         CaseSaved(name, case, files).files, 4)
    ELSE IF filing_data_from_intermediate(name, acquired.value).status = "raise"
    THEN IterationRaised(filing_data_from_intermediate(name, acquired.value).error,
                         RawSaved(name, case, files, acquired).files, 5)
    ELSE IF FilingsSaved(name, case, files, acquired).status = "raise"
    THEN IterationRaised(FilingsSaved(name, case, files, acquired).error,
                         RawSaved(name, case, files, acquired).files, 6)
    ELSE IF \E i \in 1..Len(filing_data_from_intermediate(name, acquired.value).value) :
               Converted(name, filing_data_from_intermediate(name, acquired.value).value)[i].status
                   = "raise"
    THEN IterationRaised(
             FirstConversionError(
                 Converted(name, filing_data_from_intermediate(name, acquired.value).value)),
             FilingsSaved(name, case, files, acquired).files, 7)
    ELSE [status |-> "ok", error |-> "",
          files |-> FilingsSaved(name, case, files, acquired).files,
          filings |-> Len(filing_data_from_intermediate(name, acquired.value).value),
          generic |-> [i \in 1..Len(filing_data_from_intermediate(name, acquired.value).value) |->
                          Converted(name,
                              filing_data_from_intermediate(name, acquired.value).value)[i].value],
          steps |-> IF filing_data_from_intermediate(name, acquired.value).value = <<>>
                    THEN SubSeq(IterationSteps, 1, 6) ELSE IterationSteps]

---------------------------------------------------------------------------
(* What the acquisition steps can bring back *)

\* range(1, 21) in NYPUCScraper.universal_caselist_intermediate
IndustryCount == 20

\* The <tbody> a search-results page holds: a docket with a date, a docket
\* whose date cell is empty, and a row without a docket link.
IndustryRows ==
    <<Row("row", <<Cell("", Link("D1", TRUE, "CaseMaster.aspx")), Cell("Complaint", NoLink),
                   Cell("Appeal", NoLink), Cell(ValidDateText, NoLink),
                   Cell("In the Matter", NoLink), Cell("Individual", NoLink)>>),
      Row("row", <<Cell("", Link("D2", TRUE, "CaseMaster.aspx")), Cell("Petition", NoLink),
                   Cell("Rates", NoLink), Cell(<<>>, NoLink),
                   Cell("Proceeding", NoLink), Cell("Utility", NoLink)>>),
      Row("row", <<Cell("", NoLink), Cell("Petition", NoLink),
                   Cell("Rates", NoLink), Cell(ValidDateText, NoLink),
                   Cell("Proceeding", NoLink), Cell("Utility", NoLink)>>)>>

\* process_industry(industry_num): the page's table and industry label, or
\* the exception the browser step raised (re-raised by the handler).
process_industry_outcomes ==
    {[status |-> "ok", error |-> "",
      value |-> PyDict(<<"html", "industry">>,
                       <<PyHtml(Markup("", TRUE, IndustryRows)), PyStr("Electric")>>)],
     [status |-> "raise", error |-> "TimeoutException", value |-> PyUnbound],
     [status |-> "raise", error |-> "WebDriverException", value |-> PyUnbound]}

\* The rows a docket's document table may hold: a filing row per item
\* number and attachment, a row with too few cells, a row without a link.
FilingRow(serial, date_filed, title, itemNo, file_name) ==
    Row("", <<Cell(serial, NoLink), Cell(date_filed, NoLink), Cell("Plans", NoLink),
              Cell("", Link(title, TRUE, "https://dps.ny.gov/doc")),
              Cell("Utility", NoLink), Cell(itemNo, NoLink), Cell(file_name, NoLink)>>)

FilingRows ==
    {FilingRow("s1", ValidDateText, n, i, n) : n \in AttachmentNames, i \in ItemNos}
    \cup {Row("", <<Cell("s1", NoLink), Cell(ValidDateText, NoLink)>>),
          Row("", <<Cell("s1", NoLink), Cell(ValidDateText, NoLink), Cell("Plans", NoLink),
                    Cell("", NoLink), Cell("Utility", NoLink), Cell("12", NoLink),
                    Cell("A", NoLink)>>)}

\* process_docket(docket): the outerHTML of the element with id tblPubDoc, or
\* the exception re-raised after driver.quit().
process_docket_outcomes ==
    {[status |-> "ok", error |-> "",
      value |-> PyHtml(Markup("tblPubDoc", TRUE, rows))] :
        rows \in SeqsUpTo(FilingRows, MaxHtmlRows)}
    \cup {[status |-> "raise", error |-> "TimeoutError", value |-> PyUnbound],
          [status |-> "raise", error |-> "NoSuchElementException", value |-> PyUnbound]}

\* NYPUCScraper.filing_data_intermediate(data)
NY_filing_data_intermediate_outcomes(data) ==
    {IF html.status = "raise" THEN html
     ELSE [status |-> "ok", error |-> "",
           value |-> PyDict(<<"docket_id", "html">>,
                            <<PyStr(data.docket_id), html.value>>)] :
        html \in process_docket_outcomes}

\* DummyScraper.filing_data_intermediate(data): randint(1, 5) filings.
Dummy_filing_data_intermediate_outcomes(data) ==
    {[status |-> "ok", error |-> "",
      value |-> Dummy_filing_data_intermediate_of(data,
                    [i \in 1..Len(ids) |-> generate_dummy_filing(data, ids[i])])] :
        ids \in {x \in SeqsUpTo(DummyFilingIds, DummyMaxFilings) :
                    Len(x) >= DummyMinFilings}}

filing_data_intermediate_outcomes(name, data) ==
    IF name = "dummy" THEN Dummy_filing_data_intermediate_outcomes(data)
    ELSE NY_filing_data_intermediate_outcomes(data)

---------------------------------------------------------------------------
(* Specification SpecDedup: the deduplication applied to a list of rows,   *)
(* then to its own output.                                                 *)

\* The parts of the state a specification does not use stay as they start.
IdleDedup ==
    /\ raw_files = <<>>
    /\ deduped_data = <<>>
    /\ rededuped_data = <<>>
    /\ dedup_pc = "idle"

IdleSave ==
    /\ disk = NoFiles
    /\ save_data = PyUnbound
    /\ save_path = <<>>
    /\ save_outcome = [status |-> "none", error |-> ""]
    /\ save_calls = 0

IdleRank ==
    /\ text_objects = <<>>
    /\ rank_outcome = [status |-> "none", text |-> "", error |-> ""]
    /\ rank_pc = "idle"

IdleRun ==
    /\ scraper = "none"
    /\ entry = "none"
    /\ after_date = 0
    /\ run_pc = "idle"
    /\ generated = <<>>
    /\ caselist_intermediate = PyUnbound
    /\ state_cases = <<>>
    /\ case_index = 1
    /\ filing_counts = <<>>
    /\ all_generic_cases = <<>>
    /\ run_error = ""
    /\ steps = <<>>

IdleContract ==
    /\ con_scraper = "none"
    /\ con_pc = "idle"
    /\ con_caselist = PyUnbound
    /\ con_cases = <<>>
    /\ con_case = PyUnbound
    /\ con_filing_intermediate = [status |-> "none", error |-> "", value |-> PyUnbound]
    /\ con_filings = [status |-> "none", error |-> "", value |-> <<>>]
    /\ con_converted = [status |-> "none", error |-> ""]

IdleBrowser ==
    /\ br_call = "none"
    /\ br_pc = "idle"
    /\ br_open = {}
    /\ br_started = 0
    /\ br_calls = 0
    /\ br_polls = 0
    /\ br_fault = ""
    /\ br_error = ""
    /\ br_result = PyUnbound

IdleParallel ==
    /\ par_scraper = "none"
    /\ par_cases = <<>>
    /\ par_pc = <<>>
    /\ par_targets = <<>>
    /\ par_acquired = <<>>
    /\ par_output = <<>>

InitDedup ==
    /\ raw_files \in SeqsUpTo(RawRows, MaxRows)
    /\ deduped_data = <<>>
    /\ rededuped_data = <<>>
    /\ dedup_pc = "input"
    /\ IdleSave
    /\ IdleRank
    /\ IdleRun
    /\ IdleContract
    /\ IdleParallel
    /\ IdleBrowser

ApplyDedup ==
    /\ dedup_pc = "input"
    /\ deduped_data' = deduplicate_individual_attachments_into_files(raw_files)
    /\ dedup_pc' = "deduped"
    /\ UNCHANGED <<raw_files, rededuped_data>>
    /\ UNCHANGED exceptDedup

ApplyDedupAgain ==
    /\ dedup_pc = "deduped"
    /\ rededuped_data' = deduplicate_individual_attachments_into_files(deduped_data)
    /\ dedup_pc' = "rededuped"
    /\ UNCHANGED <<raw_files, deduped_data>>
    /\ UNCHANGED exceptDedup

NextDedup == ApplyDedup \/ ApplyDedupAgain

SpecDedup == InitDedup /\ [][NextDedup]_vars

---------------------------------------------------------------------------
(* Specification SpecSave: a caller makes save_json calls with data of     *)
(* every kind the helper tests for, and of kinds it does not.              *)

\* Typed records as the helper sees them.  An NYPUCDocket holds only str
\* fields; a DummyCaseData holds a date (opened_date).
SaveRecords ==
    {NYPUCDocketObject(NYPUCDocket("D1", "Complaint", "Appeal", "In the Matter",
                                   "Individual", ValidDateText, "Electric")),
     NYPUCDocketObject(NYPUCDocket("D2", "Complaint", "Appeal", "In the Matter",
                                   "Individual", <<>>, "Electric")),
     DummyCaseObject(DummyCaseData("DUMMY-1000", "sentence", 1))}

SaveMappings ==
    {PyDict(<<>>, <<>>),
     PyDict(<<"docket_id", "html">>, <<PyStr("D1"), PyStr("<table>")>>),
     PyDict(<<"cases">>, <<PyList(<<>>)>>)}

SaveInputs ==
    SaveMappings \cup SaveRecords
    \cup {PyList(items) : items \in SeqsUpTo(SaveRecords, MaxSaves)}
    \cup {PyList(<<PyInt(1)>>), PyList(<<PyDict(<<>>, <<>>)>>),
          PyInt(5), PyStr("text")}

SavePaths == {<<"data", "caselist.json">>, <<"data", "cases", "case_D1.json">>}

InitSave ==
    /\ IdleDedup
    /\ IdleContract
    /\ IdleParallel
    /\ IdleBrowser
    /\ IdleSave
    /\ IdleRank
    /\ IdleRun

SaveJsonCall ==
    /\ save_calls < MaxSaves
    /\ \E path \in SavePaths, data \in SaveInputs :
          LET done == save_json(disk, path, data)
          IN  /\ disk' = done.files
              /\ save_outcome' = [status |-> done.status, error |-> done.error]
              /\ save_data' = data
              /\ save_path' = path
    /\ save_calls' = save_calls + 1
    /\ UNCHANGED exceptSave

NextSave == SaveJsonCall

SpecSave == InitSave /\ [][NextSave]_vars

---------------------------------------------------------------------------
(* Specification SpecRank: get_highest_quality_text applied to the text    *)
(* variants of one attachment.                                             *)

Qualities == {"low", "high"}

\* Timestamps below, at and above the divisor (in TimeUnit seconds).
Timestamps == {1, 100, 1000, TimestampDivisor, TimestampDivisor + 1000}

Texts == {"ocr", "native"}

TextVariants ==
    {RawAttachmentText(q, "en", x, t) : q \in Qualities, x \in Texts, t \in Timestamps}

InitRank ==
    /\ IdleDedup
    /\ IdleContract
    /\ IdleParallel
    /\ IdleBrowser
    /\ IdleSave
    /\ IdleRun
    /\ text_objects \in SeqsUpTo(TextVariants, MaxTexts)
    /\ rank_outcome = [status |-> "none", text |-> "", error |-> ""]
    /\ rank_pc = "input"

GetHighestQualityText ==
    /\ rank_pc = "input"
    /\ rank_outcome' = get_highest_quality_text(text_objects)
    /\ rank_pc' = "done"
    /\ UNCHANGED text_objects
    /\ UNCHANGED exceptRank

NextRank == GetHighestQualityText

SpecRank == InitRank /\ [][NextRank]_vars

---------------------------------------------------------------------------
(* Specification SpecRun: one call of an entry point of the package, with  *)
(* either scraper: get_all_cases, get_new_cases_since_date, process_cases, *)
(* or one of the scraper's updated_cases_since_date methods.               *)

Entries ==
    {"get_all_cases", "get_new_cases_since_date", "process_cases",
     "updated_cases_since_date_intermediate",
     "updated_cases_since_date_from_intermediate"}

\* The typed cases a caller may hand to process_cases.
StateCases(name) ==
    IF name = "dummy"
    THEN {DummyCaseData(n, "sentence", d) : n \in DummyCaseNumbers, d \in Days}
    ELSE {NYPUCDocket(id, "Complaint", "Appeal", "In the Matter", "Individual", t,
                      "Electric") : id \in DocketIds, t \in DateTexts}

\* The intermediates a caller may hand to
\* updated_cases_since_date_from_intermediate: what the Dummy scraper's paired
\* method builds, for any list of cases.
UpdatedIntermediates ==
    {Dummy_caselist_intermediate_of(cases) :
        cases \in SeqsUpTo(StateCases("dummy"), MaxCases)}

\* The day Faker draws for the cases of a generated case list.
GeneratedDay == 2

InitRunCommon ==
    /\ IdleDedup
    /\ IdleContract
    /\ IdleParallel
    /\ IdleBrowser
    /\ IdleSave
    /\ IdleRank
    /\ scraper \in Scrapers
    /\ entry \in Entries
    /\ generated = <<>>
    /\ case_index = 1
    /\ filing_counts = <<>>
    /\ all_generic_cases = <<>>
    /\ run_error = ""
    /\ steps = <<>>

InitRun ==
    /\ InitRunCommon
    /\ after_date \in (IF entry \in {"get_all_cases", "process_cases"} THEN {0} ELSE Days)
    /\ run_pc = (CASE entry = "process_cases" -> "processing"
                   [] entry = "updated_cases_since_date_from_intermediate" -> "call"
                   [] OTHER -> "acquire")
    /\ caselist_intermediate \in
          (IF entry = "updated_cases_since_date_from_intermediate"
           THEN UpdatedIntermediates ELSE {PyUnbound})
    /\ state_cases \in
          (IF entry = "process_cases"
           THEN SeqsUpTo(StateCases(scraper), MaxCases) ELSE {<<>>})

\* The entry point reads the case list with universal_caselist_intermediate:
\* get_all_cases does, and DummyScraper.updated_cases_since_date_intermediate
\* delegates to it.
ReadsUniversalCaselist ==
    \/ entry = "get_all_cases"
    \/ /\ scraper = "dummy"
       /\ entry \in {"get_new_cases_since_date", "updated_cases_since_date_intermediate"}

\* DummyScraper.universal_caselist_intermediate: one _generate_dummy_case().
GenerateDummyCase ==
    /\ run_pc = "acquire"
    /\ scraper = "dummy"
    /\ ReadsUniversalCaselist
    /\ Len(generated) < DummyCaseCount
    /\ \E n \in DummyCaseNumbers :
          generated' = Append(generated, DummyCaseData(n, "sentence", GeneratedDay))
    /\ UNCHANGED <<scraper, entry, after_date, run_pc, caselist_intermediate,
                   state_cases, case_index, filing_counts, all_generic_cases,
                   run_error, steps, disk>>
    /\ UNCHANGED exceptRun

\* DummyScraper.universal_caselist_intermediate returns {"cases": [...]}.
ReturnDummyCaselist ==
    /\ run_pc = "acquire"
    /\ scraper = "dummy"
    /\ ReadsUniversalCaselist
    /\ Len(generated) = DummyCaseCount
    /\ caselist_intermediate' = Dummy_caselist_intermediate_of(generated)
    /\ run_pc' = "acquired"
    /\ steps' = Append(steps, IF entry = "get_all_cases"
                              THEN "universal_caselist_intermediate"
                              ELSE "updated_cases_since_date_intermediate")
    /\ UNCHANGED <<scraper, entry, after_date, generated, state_cases, case_index,
                   filing_counts, all_generic_cases, run_error, disk>>
    /\ UNCHANGED exceptRun

\* NYPUCScraper.universal_caselist_intermediate: process_industry for the next
\* industry number; its exception ends the call.
ProcessIndustry ==
    /\ run_pc = "acquire"
    /\ scraper = "ny"
    /\ ReadsUniversalCaselist
    /\ Len(generated) < IndustryCount
    /\ \E outcome \in process_industry_outcomes :
          IF outcome.status = "raise"
          THEN /\ run_pc' = "raised"
               /\ run_error' = outcome.error
               /\ steps' = Append(steps, "universal_caselist_intermediate")
               /\ UNCHANGED generated
          ELSE /\ generated' = Append(generated, outcome.value)
               /\ UNCHANGED <<run_pc, run_error, steps>>
    /\ UNCHANGED <<scraper, entry, after_date, caselist_intermediate, state_cases,
                   case_index, filing_counts, all_generic_cases, disk>>
    /\ UNCHANGED exceptRun

\* NYPUCScraper.universal_caselist_intermediate returns
\* {"industry_intermediates": [...]}.
ReturnIndustryIntermediates ==
    /\ run_pc = "acquire"
    /\ scraper = "ny"
    /\ ReadsUniversalCaselist
    /\ Len(generated) = IndustryCount
    /\ caselist_intermediate' = PyDict(<<"industry_intermediates">>, <<PyList(generated)>>)
    /\ run_pc' = "acquired"
    /\ steps' = Append(steps, "universal_caselist_intermediate")
    /\ UNCHANGED <<scraper, entry, after_date, generated, state_cases, case_index,
                   filing_counts, all_generic_cases, run_error, disk>>
    /\ UNCHANGED exceptRun

\* NYPUCScraper.updated_cases_since_date_intermediate(after_date), called
\* directly or by get_new_cases_since_date.
CallNYUpdatedIntermediate ==
    /\ run_pc = "acquire"
    /\ scraper = "ny"
    /\ entry \in {"get_new_cases_since_date", "updated_cases_since_date_intermediate"}
    /\ LET outcome == NY_updated_cases_since_date_intermediate(after_date)
       IN  /\ run_pc' = IF outcome.status = "raise" THEN "raised" ELSE "acquired"
           /\ run_error' = outcome.error
           /\ caselist_intermediate' =
                 IF outcome.status = "raise" THEN caselist_intermediate ELSE outcome.value
    /\ steps' = Append(steps, "updated_cases_since_date_intermediate")
    /\ UNCHANGED <<scraper, entry, after_date, generated, state_cases, case_index,
                   filing_counts, all_generic_cases, disk>>
    /\ UNCHANGED exceptRun

\* A direct call of updated_cases_since_date_intermediate returns its
\* intermediate to the caller.
ReturnUpdatedIntermediate ==
    /\ run_pc = "acquired"
    /\ entry = "updated_cases_since_date_intermediate"
    /\ run_pc' = "returned"
    /\ UNCHANGED <<scraper, entry, after_date, generated, caselist_intermediate,
                   state_cases, case_index, filing_counts, all_generic_cases,
                   run_error, steps, disk>>
    /\ UNCHANGED exceptRun

\* A direct call of updated_cases_since_date_from_intermediate.
CallUpdatedFromIntermediate ==
    /\ run_pc = "call"
    /\ entry = "updated_cases_since_date_from_intermediate"
    /\ LET outcome == updated_cases_since_date_from_intermediate(
                          scraper, caselist_intermediate, after_date)
       IN  /\ run_pc' = IF outcome.status = "raise" THEN "raised" ELSE "returned"
           /\ run_error' = outcome.error
           /\ state_cases' = outcome.value
    /\ steps' = Append(steps, "updated_cases_since_date_from_intermediate")
    /\ UNCHANGED <<scraper, entry, after_date, generated, caselist_intermediate,
                   case_index, filing_counts, all_generic_cases, disk>>
    /\ UNCHANGED exceptRun

\* get_all_cases / get_new_cases_since_date after the intermediate is there:
\* save_json of the intermediate, then the paired from_intermediate.
SaveAndParseCaselist ==
    /\ run_pc = "acquired"
    /\ entry \in {"get_all_cases", "get_new_cases_since_date"}
    /\ LET all == entry = "get_all_cases"
           saved == save_json(disk, IF all THEN CaselistPath ELSE UpdatedPath,
                              caselist_intermediate)
           parsed == IF all
                     THEN [status |-> "ok", error |-> "",
                           value |-> universal_caselist_from_intermediate(
                                         scraper, caselist_intermediate)]
                     ELSE updated_cases_since_date_from_intermediate(
                              scraper, caselist_intermediate, after_date)
           parse_step == IF all THEN "universal_caselist_from_intermediate"
                         ELSE "updated_cases_since_date_from_intermediate"
       IN  IF saved.status = "raise"
           THEN /\ run_pc' = "raised"
                /\ run_error' = saved.error
                /\ steps' = Append(steps, "save_caselist")
                /\ UNCHANGED <<disk, state_cases>>
           ELSE IF parsed.status = "raise"
           THEN /\ run_pc' = "raised"
                /\ run_error' = parsed.error
                /\ steps' = steps \o <<"save_caselist", parse_step>>
                /\ disk' = saved.files
                /\ UNCHANGED state_cases
           ELSE /\ run_pc' = "processing"
                /\ state_cases' = parsed.value
                /\ steps' = steps \o <<"save_caselist", parse_step>>
                /\ disk' = saved.files
                /\ UNCHANGED run_error
    /\ UNCHANGED <<scraper, entry, after_date, generated, caselist_intermediate,
                   case_index, filing_counts, all_generic_cases>>
    /\ UNCHANGED exceptRun

\* process_cases: one iteration of `for case in cases`.
ProcessCaseIteration ==
    /\ run_pc = "processing"
    /\ case_index <= Len(state_cases)
    /\ \E acquired \in filing_data_intermediate_outcomes(scraper, state_cases[case_index]) :
          LET done == ProcessCaseBody(scraper, state_cases[case_index], disk, acquired)
          IN  /\ disk' = done.files
              /\ steps' = steps \o done.steps
              /\ IF done.status = "raise"
                 THEN /\ run_pc' = "raised"
                      /\ run_error' = done.error
                      /\ UNCHANGED <<case_index, filing_counts, all_generic_cases>>
                 ELSE /\ case_index' = case_index + 1
                      /\ filing_counts' = Append(filing_counts, done.filings)
                      /\ all_generic_cases' = all_generic_cases \o done.generic
                      /\ UNCHANGED <<run_pc, run_error>>
    /\ UNCHANGED <<scraper, entry, after_date, generated, caselist_intermediate,
                   state_cases>>
    /\ UNCHANGED exceptRun

\* process_cases: `return all_generic_cases` after the last case.
ReturnGenericCases ==
    /\ run_pc = "processing"
    /\ case_index > Len(state_cases)
    /\ run_pc' = "returned"
    /\ UNCHANGED <<scraper, entry, after_date, generated, caselist_intermediate,
                   state_cases, case_index, filing_counts, all_generic_cases,
                   run_error, steps, disk>>
    /\ UNCHANGED exceptRun

NextRun ==
    \/ GenerateDummyCase
    \/ ReturnDummyCaselist
    \/ ProcessIndustry
    \/ ReturnIndustryIntermediates
    \/ CallNYUpdatedIntermediate
    \/ ReturnUpdatedIntermediate
    \/ CallUpdatedFromIntermediate
    \/ SaveAndParseCaselist
    \/ ProcessCaseIteration
    \/ ReturnGenericCases

SpecRun == InitRun /\ [][NextRun]_vars

---------------------------------------------------------------------------
(* Specification SpecContract: the methods of a scraper's contract applied *)
(* to each other's results.  A case-list intermediate is parsed; a parsed  *)
(* case is converted, or its filings are acquired, parsed and converted.   *)

\* The rows of a search-results table: a docket row per docket id and date
\* text, and a row without a docket link.
DocketRow(docket_id, date_filed) ==
    Row("row", <<Cell("", Link(docket_id, TRUE, "CaseMaster.aspx")),
                 Cell("Complaint", NoLink), Cell("Appeal", NoLink),
                 Cell(date_filed, NoLink), Cell("In the Matter", NoLink),
                 Cell("Individual", NoLink)>>)

DocketRows ==
    {DocketRow(id, t) : id \in DocketIds, t \in DateTexts}
    \cup {Row("row", <<Cell("", NoLink), Cell("Petition", NoLink), Cell("Rates", NoLink),
                       Cell(ValidDateText, NoLink), Cell("Proceeding", NoLink),
                       Cell("Utility", NoLink)>>)}

\* The case-list intermediates of a scraper: what its
\* universal_caselist_intermediate returns.
CaselistIntermediates(name) ==
    IF name = "dummy"
    THEN {Dummy_caselist_intermediate_of(cases) :
             cases \in SeqsUpTo(StateCases("dummy"), MaxContractCases)}
    ELSE {PyDict(<<"industry_intermediates">>,
                 <<PyList(<<PyDict(<<"html", "industry">>,
                                   <<PyHtml(Markup("", TRUE, rows)),
                                     PyStr("Electric")>>)>>)>>) :
             rows \in SeqsUpTo(DocketRows, MaxContractCases)}

InitContract ==
    /\ IdleDedup
    /\ IdleSave
    /\ IdleRank
    /\ IdleRun
    /\ IdleParallel
    /\ IdleBrowser
    /\ con_scraper \in Scrapers
    /\ con_pc = "caselist"
    /\ con_caselist \in CaselistIntermediates(con_scraper)
    /\ con_cases = <<>>
    /\ con_case = PyUnbound
    /\ con_filing_intermediate = [status |-> "none", error |-> "", value |-> PyUnbound]
    /\ con_filings = [status |-> "none", error |-> "", value |-> <<>>]
    /\ con_converted = [status |-> "none", error |-> ""]

\* scraper.universal_caselist_from_intermediate(intermediate)
CallUniversalCaselistFromIntermediate ==
    /\ con_pc = "caselist"
    /\ con_cases' = universal_caselist_from_intermediate(con_scraper, con_caselist)
    /\ con_pc' = "cases"
    /\ UNCHANGED <<con_scraper, con_caselist, con_case, con_filing_intermediate,
                   con_filings, con_converted>>
    /\ UNCHANGED exceptContract

\* scraper.into_generic_case_data(case), for a case of the parsed list
CallIntoGenericCaseData ==
    /\ con_pc = "cases"
    /\ \E i \in 1..Len(con_cases) :
          /\ con_case' = con_cases[i]
          /\ con_converted' = into_generic_case_data(con_scraper, con_cases[i])
    /\ con_pc' = "case_converted"
    /\ UNCHANGED <<con_scraper, con_caselist, con_cases, con_filing_intermediate,
                   con_filings>>
    /\ UNCHANGED exceptContract

\* scraper.filing_data_intermediate(case), for a case of the parsed list
CallFilingDataIntermediate ==
    /\ con_pc = "cases"
    /\ \E i \in 1..Len(con_cases) :
          /\ con_case' = con_cases[i]
          /\ \E outcome \in filing_data_intermediate_outcomes(con_scraper, con_cases[i]) :
                /\ con_filing_intermediate' = outcome
                /\ con_pc' = IF outcome.status = "ok" THEN "filing_intermediate"
                             ELSE "raised"
    /\ UNCHANGED <<con_scraper, con_caselist, con_cases, con_filings, con_converted>>
    /\ UNCHANGED exceptContract

\* scraper.filing_data_from_intermediate(intermediate), on what
\* filing_data_intermediate returned
CallFilingDataFromIntermediate ==
    /\ con_pc = "filing_intermediate"
    /\ con_filings' = filing_data_from_intermediate(con_scraper,
                                                    con_filing_intermediate.value)
    /\ con_pc' = "filings"
    /\ UNCHANGED <<con_scraper, con_caselist, con_cases, con_case,
                   con_filing_intermediate, con_converted>>
    /\ UNCHANGED exceptContract

\* scraper.into_generic_filing_data(filing), for a filing of the parsed list
CallIntoGenericFilingData ==
    /\ con_pc = "filings"
    /\ con_filings.status = "ok"
    /\ \E i \in 1..Len(con_filings.value) :
          con_converted' = into_generic_filing_data(con_scraper, con_filings.value[i])
    /\ con_pc' = "filing_converted"
    /\ UNCHANGED <<con_scraper, con_caselist, con_cases, con_case,
                   con_filing_intermediate, con_filings>>
    /\ UNCHANGED exceptContract

NextContract ==
    \/ CallUniversalCaselistFromIntermediate
    \/ CallIntoGenericCaseData
    \/ CallFilingDataIntermediate
    \/ CallFilingDataFromIntermediate
    \/ CallIntoGenericFilingData

SpecContract == InitContract /\ [][NextContract]_vars

---------------------------------------------------------------------------
(* Specification SpecParallel: the body of process_cases' loop run by one  *)
(* worker per case (the DAG's task per case), the workers' steps           *)
(* interleaved in any order over the common disk and output accumulator.   *)

\* What one step of the loop body does: where the worker is next, the files
\* after, the paths handed to save_json, the filing intermediate held, and the
\* generic filings produced.
StepDone(next, files, targets, held, generic) ==
    [pc |-> next, files |-> files, targets |-> targets, acquired |-> held,
     generic |-> generic]

\* The typed filings of the intermediate a worker holds.
ParsedFilings(name, held) == filing_data_from_intermediate(name, held.value)

\* The step at `position` of the loop body for one case, on the files
\* `files`; held is the filing intermediate of the worker, drawn is what
\* filing_data_intermediate does if this is the step that calls it.
PerCaseStep(name, case, files, position, held, drawn) ==
    IF position = 1
    THEN StepDone(IF into_generic_case_data(name, case).status = "raise"
                  THEN 0 ELSE 2, files, {}, held, <<>>)
    ELSE IF position = 2
    THEN StepDone(IF CaseSaved(name, case, files).status = "raise" THEN 0 ELSE 3,
                  CaseSaved(name, case, files).files,
                  {CasePath(CaseNum(name, case))}, held, <<>>)
    ELSE IF position = 3
    THEN StepDone(IF drawn.status = "raise" THEN 0 ELSE 4, files, {},
                  IF drawn.status = "raise" THEN held ELSE drawn, <<>>)
    ELSE IF position = 4
    THEN StepDone(IF save_json(files, FilingsPath(CaseNum(name, case)),
                               held.value).status = "raise"
                  THEN 0 ELSE 5,
                  save_json(files, FilingsPath(CaseNum(name, case)), held.value).files,
                  {FilingsPath(CaseNum(name, case))}, held, <<>>)
    ELSE IF position = 5
    THEN StepDone(IF ParsedFilings(name, held).status = "raise" THEN 0 ELSE 6,
                  files, {}, held, <<>>)
    ELSE IF position = 6
    THEN StepDone(IF save_json(files, FilingsPath(CaseNum(name, case)),
                               PyList([i \in 1..Len(ParsedFilings(name, held).value) |->
                                   StateFilingObject(name,
                                       ParsedFilings(name, held).value[i])])).status
                        = "raise"
                  THEN 0 ELSE 7,
                  save_json(files, FilingsPath(CaseNum(name, case)),
                            PyList([i \in 1..Len(ParsedFilings(name, held).value) |->
                                StateFilingObject(name,
                                    ParsedFilings(name, held).value[i])])).files,
                  {FilingsPath(CaseNum(name, case))}, held, <<>>)
    ELSE IF \E i \in 1..Len(ParsedFilings(name, held).value) :
               Converted(name, ParsedFilings(name, held).value)[i].status = "raise"
    THEN StepDone(0, files, {}, held, <<>>)
    ELSE StepDone(8, files, {}, held,
                  [i \in 1..Len(ParsedFilings(name, held).value) |->
                      Converted(name, ParsedFilings(name, held).value)[i].value])

\* A worker that has not called filing_data_intermediate holds nothing.
NothingAcquired == [status |-> "none", error |-> "", value |-> PyUnbound]

\* The cases are what universal_caselist_from_intermediate made of a case-list
\* intermediate of the scraper.
InitParallel ==
    /\ IdleDedup
    /\ IdleContract
    /\ IdleSave
    /\ IdleRank
    /\ IdleRun
    /\ IdleBrowser
    /\ par_scraper \in Scrapers
    /\ \E intermediate \in CaselistIntermediates(par_scraper) :
          par_cases = universal_caselist_from_intermediate(par_scraper, intermediate)
    /\ par_pc = [i \in 1..Len(par_cases) |-> 1]
    /\ par_targets = [i \in 1..Len(par_cases) |-> {}]
    /\ par_acquired = [i \in 1..Len(par_cases) |-> NothingAcquired]
    /\ par_output = <<>>

\* The worker of case i takes its next step.
WorkerStep(i) ==
    /\ par_pc[i] \in 1..7
    /\ \E drawn \in filing_data_intermediate_outcomes(par_scraper, par_cases[i]) :
          /\ par_pc' = [par_pc EXCEPT ![i] =
                PerCaseStep(par_scraper, par_cases[i], disk, par_pc[i],
                            par_acquired[i], drawn).pc]
          /\ disk' = PerCaseStep(par_scraper, par_cases[i], disk, par_pc[i],
                                 par_acquired[i], drawn).files
          /\ par_targets' = [par_targets EXCEPT ![i] = @ \cup
                PerCaseStep(par_scraper, par_cases[i], disk, par_pc[i],
                            par_acquired[i], drawn).targets]
          /\ par_acquired' = [par_acquired EXCEPT ![i] =
                PerCaseStep(par_scraper, par_cases[i], disk, par_pc[i],
                            par_acquired[i], drawn).acquired]
          /\ par_output' = par_output \o
                PerCaseStep(par_scraper, par_cases[i], disk, par_pc[i],
                            par_acquired[i], drawn).generic
    /\ UNCHANGED <<par_scraper, par_cases>>
    /\ UNCHANGED exceptParallel

NextParallel == \E i \in 1..Len(par_cases) : WorkerStep(i)

SpecParallel == InitParallel /\ [][NextParallel]_vars

---------------------------------------------------------------------------
(* Specification SpecBrowser: process_docket and process_industry (ny.py), *)
(* statement by statement, called one after the other by their caller.     *)

BrowserCalls == {"process_docket", "process_industry"}

\* for _ in range(10): the polls of the overlay in process_docket
OverlayPolls == 10

\* What the call returns: the table's outerHTML, or the industry's dict.
BrowserResult(call) ==
    IF call = "process_docket" THEN PyHtml(Markup("tblPubDoc", TRUE, <<>>))
    ELSE PyDict(<<"html", "industry">>,
                <<PyHtml(Markup("", TRUE, <<>>)), PyStr("Electric")>>)

\* An except clause that leaves the function without running the finally
\* clause.
except_leaves_function(fault) == [pc |-> "raised", error |-> fault]

\* except ... as e: print(...); raise e -- the exception goes on through the
\* finally clause.
except_reraise(fault) == [pc |-> "finally", error |-> fault]

\* driver.quit()
driver_quit(sessions, driver) == sessions \ {driver}

InitBrowser ==
    /\ IdleDedup
    /\ IdleContract
    /\ IdleParallel
    /\ IdleSave
    /\ IdleRank
    /\ IdleRun
    /\ br_call \in BrowserCalls
    /\ br_pc = "call"
    /\ br_open = {}
    /\ br_started = 0
    /\ br_calls = 1
    /\ br_polls = 0
    /\ br_fault = ""
    /\ br_error = ""
    /\ br_result = PyUnbound

\* An exception raised by a statement inside the try block.
RaisedInTry(fault) ==
    /\ br_pc' = "except"
    /\ br_fault' = fault
    /\ UNCHANGED <<br_call, br_open, br_started, br_calls, br_polls, br_error,
                   br_result>>

\* A statement inside the try block that went through.
GoesOn(next, polls) ==
    /\ br_pc' = next
    /\ br_polls' = polls
    /\ UNCHANGED <<br_call, br_open, br_started, br_calls, br_fault, br_error,
                   br_result>>

\* driver = webdriver.Chrome(), before the try block: a session starts, or
\* the constructor raises and the call ends with no session started.
StartSession ==
    /\ br_pc = "call"
    /\ \/ /\ br_started' = br_started + 1
          /\ br_open' = br_open \cup {br_started + 1}
          /\ br_pc' = "get"
          /\ UNCHANGED <<br_fault, br_error>>
       \/ /\ br_pc' = "raised"
          /\ br_fault' = "WebDriverException"
          /\ br_error' = "WebDriverException"
          /\ UNCHANGED <<br_started, br_open>>
    /\ UNCHANGED <<br_call, br_calls, br_polls, br_result>>
    /\ UNCHANGED exceptBrowser

\* driver.get(url)
DriverGet ==
    /\ br_pc = "get"
    /\ \/ GoesOn("wait", 0)
       \/ RaisedInTry("WebDriverException")
    /\ UNCHANGED exceptBrowser

\* process_docket: one iteration of the overlay loop.  The element may be
\* missing (find_element raises); hidden ends the loop; otherwise the loop
\* sleeps, and after the last iteration its else clause raises TimeoutError.
PollOverlay ==
    /\ br_pc = "wait"
    /\ br_call = "process_docket"
    /\ \/ RaisedInTry("NoSuchElementException")
       \/ GoesOn("find_table", br_polls)
       \/ IF br_polls + 1 = OverlayPolls
          THEN RaisedInTry("TimeoutError")
          ELSE GoesOn("wait", br_polls + 1)
    /\ UNCHANGED exceptBrowser

\* process_industry: wait.until(...) for the criteria label, then for the
\* table body; each raises TimeoutException when the element does not appear.
WaitUntil ==
    /\ br_pc = "wait"
    /\ br_call = "process_industry"
    /\ \/ RaisedInTry("TimeoutException")
       \/ IF br_polls = 0 THEN GoesOn("wait", 1) ELSE GoesOn("return", br_polls)
    /\ UNCHANGED exceptBrowser

\* process_docket: driver.find_element(By.ID, "tblPubDoc")
FindTable ==
    /\ br_pc = "find_table"
    /\ \/ GoesOn("return", br_polls)
       \/ RaisedInTry("NoSuchElementException")
    /\ UNCHANGED exceptBrowser

\* return ... inside the try block: the finally clause runs before the
\* function is left.
ReturnFromTry ==
    /\ br_pc = "return"
    /\ br_result' = BrowserResult(br_call)
    /\ br_pc' = "finally"
    /\ UNCHANGED <<br_call, br_open, br_started, br_calls, br_polls, br_fault,
                   br_error>>
    /\ UNCHANGED exceptBrowser

\* The except clause: print and raise e.
ExceptClause ==
    /\ br_pc = "except"
    /\ br_pc' = except_reraise(br_fault).pc
    /\ br_error' = except_reraise(br_fault).error
    /\ UNCHANGED <<br_call, br_open, br_started, br_calls, br_polls, br_fault,
                   br_result>>
    /\ UNCHANGED exceptBrowser

\* finally: driver.quit(); then the function is left, by the return or by
\* the exception.
FinallyClause ==
    /\ br_pc = "finally"
    /\ br_open' = driver_quit(br_open, br_started)
    /\ br_pc' = IF br_error = "" THEN "returned" ELSE "raised"
    /\ UNCHANGED <<br_call, br_started, br_calls, br_polls, br_fault, br_error,
                   br_result>>
    /\ UNCHANGED exceptBrowser

\* The caller calls again after a call that returned: the next industry
\* number of universal_caselist_intermediate, the next case's
\* filing_data_intermediate.
CallAgain ==
    /\ br_pc = "returned"
    /\ br_calls < MaxBrowserCalls
    /\ br_calls' = br_calls + 1
    /\ br_pc' = "call"
    /\ br_polls' = 0
    /\ br_result' = PyUnbound
    /\ UNCHANGED <<br_call, br_open, br_started, br_fault, br_error>>
    /\ UNCHANGED exceptBrowser

NextBrowser ==
    \/ StartSession
    \/ DriverGet
    \/ PollOverlay
    \/ WaitUntil
    \/ FindTable
    \/ ReturnFromTry
    \/ ExceptClause
    \/ FinallyClause
    \/ CallAgain

SpecBrowser == InitBrowser /\ [][NextBrowser]_vars

---------------------------------------------------------------------------
(* Properties of the deduplication, checked under SpecDedup *)

\* The (itemNo, docket_id) key of a row.
KeyOf(file) == <<file.itemNo, file.docket_id>>

RowsWithKey(files, k) == SelectSeq(files, LAMBDA f : KeyOf(f) = k)

KeysIn(files) == {KeyOf(files[i]) : i \in 1..Len(files)}

\* The keys of a list in the order of their first occurrence.
RECURSIVE FirstOccurrenceKeys(_)
FirstOccurrenceKeys(files) ==
    IF files = <<>> THEN <<>>
    ELSE LET init == FirstOccurrenceKeys(SubSeq(files, 1, Len(files) - 1))
             k == KeyOf(files[Len(files)])
         IN  IF \E i \in 1..Len(init) : init[i] = k THEN init ELSE Append(init, k)

\* The individual attachments of every row of a key, as one flat list.
MergedAttachments(files, k) ==
    FlattenSeq([i \in 1..Len(RowsWithKey(files, k)) |->
                   RowsWithKey(files, k)[i].attachements])

\* A list seen by key and attachment count.
KeyCountView(files) ==
    [i \in 1..Len(files) |-> <<KeyOf(files[i]), Len(files[i].attachements)>>]

\* C1: whenever the input holds two or more rows with the same
\* (itemNo, docket_id) key, the output holds exactly one record for that key,
\* and its attachment list is the flat list of the individual attachments of
\* every row sharing the key, in first-seen row order.
C1_MergedRecordPerSharedKey ==
    dedup_pc = "deduped" =>
        \A k \in KeysIn(raw_files) :
            Len(RowsWithKey(raw_files, k)) >= 2 =>
                /\ Len(RowsWithKey(deduped_data, k)) = 1
                /\ RowsWithKey(deduped_data, k)[1].attachements
                       = MergedAttachments(raw_files, k)

\* C2: the output holds exactly one record per distinct key of the input, in
\* the order in which the keys first occur, and each record's non-attachment
\* fields are those of the first input row with that key.
C2_OneRecordPerKeyInFirstSeenOrder ==
    dedup_pc = "deduped" =>
        /\ Len(deduped_data) = Len(FirstOccurrenceKeys(raw_files))
        /\ \A i \in 1..Len(deduped_data) :
              /\ KeyOf(deduped_data[i]) = FirstOccurrenceKeys(raw_files)[i]
              /\ deduped_data[i].serial
                     = RowsWithKey(raw_files, KeyOf(deduped_data[i]))[1].serial

\* C9: deduplicating the output of a deduplication gives the same list, by
\* the sequence of keys and the attachment count of each record.
C9_DedupIdempotent ==
    dedup_pc = "rededuped" =>
        KeyCountView(rededuped_data) = KeyCountView(deduped_data)

\* C9 witness: both calls were made, on an input with two rows sharing a key
\* and carrying attachments.
C9_Witness ==
    /\ dedup_pc = "rededuped"
    /\ \E k \in KeysIn(raw_files) :
          /\ Len(RowsWithKey(raw_files, k)) >= 2
          /\ Len(MergedAttachments(raw_files, k)) >= 2

---------------------------------------------------------------------------
(* Properties of save_json, checked under SpecSave *)

IsMapping(data) == data.type = "dict"
IsRecord(data) == data.type = "model"
IsListOfRecords(data) ==
    /\ data.type = "list"
    /\ \A i \in 1..Len(data.items) : data.items[i].type = "model"

\* C3: called with a mapping, with a single structured record or with a list
\* of structured records, save_json returns without raising and the file at
\* the given path holds JSON text; called with any other type it raises.
C3_SaveJsonDispatch ==
    save_calls > 0 =>
        IF IsMapping(save_data) \/ IsRecord(save_data) \/ IsListOfRecords(save_data)
        THEN /\ save_outcome.status = "ok"
             /\ save_path \in DOMAIN disk
        ELSE save_outcome.status = "raise"

---------------------------------------------------------------------------
(* Properties of the text ranking, checked under SpecRank *)

\* v ranks at or above w in the lexicographic order (quality tier, timestamp).
LexAtLeast(v, w) ==
    \/ QualityValue(v.quality) > QualityValue(w.quality)
    \/ /\ QualityValue(v.quality) = QualityValue(w.quality)
       /\ v.timestamp >= w.timestamp

\* C5: get_highest_quality_text returns the text of a variant that is
\* maximal in the lexicographic order (quality tier, timestamp): high quality
\* before low whatever the timestamps, the larger timestamp within a tier.
C5_LexicographicMaximumReturned ==
    (rank_pc = "done" /\ text_objects # <<>>) =>
        /\ rank_outcome.status = "ok"
        /\ \E i \in 1..Len(text_objects) :
              /\ text_objects[i].text = rank_outcome.text
              /\ \A j \in 1..Len(text_objects) :
                    LexAtLeast(text_objects[i], text_objects[j])

---------------------------------------------------------------------------
(* Properties of the pipeline and of the scrapers' methods, checked under  *)
(* SpecRun                                                                 *)

RunEnded == run_pc \in {"returned", "raised"}

RECURSIVE SumSeq(_)
SumSeq(ns) == IF ns = <<>> THEN 0 ELSE Head(ns) + SumSeq(Tail(ns))

\* C4: get_all_cases with the DummyScraper ends normally, and the length of
\* the list it returns is the sum, over the cases of the parsed case list, of
\* the number of filings parsed for the case.
C4_FullDummyRunReturnsAllFilings ==
    (entry = "get_all_cases" /\ scraper = "dummy" /\ RunEnded) =>
        /\ run_pc = "returned"
        /\ Len(filing_counts) = Len(state_cases)
        /\ Len(all_generic_cases) = SumSeq(filing_counts)

\* The case dicts of a Dummy case-list intermediate, and those opened after
\* the cutoff.
IntermediateCases == DictGet(caselist_intermediate, "cases").items

OpenedAfterCutoff ==
    {i \in 1..Len(IntermediateCases) :
        DictGet(IntermediateCases[i], "opened_date").d > after_date}

\* The k-th smallest index of a set of indices.
KthOf(indices, k) ==
    CHOOSE i \in indices : Cardinality({j \in indices : j <= i}) = k

\* C7: DummyScraper.updated_cases_since_date_from_intermediate returns exactly
\* the cases of the intermediate whose opened_date is strictly after the
\* cutoff (a case opened on the cutoff date is left out), in the order of the
\* intermediate.
C7_DummyUpdatedCasesStrictlyAfterCutoff ==
    (entry = "updated_cases_since_date_from_intermediate" /\ scraper = "dummy"
     /\ run_pc # "call") =>
        /\ run_pc = "returned"
        /\ Len(state_cases) = Cardinality(OpenedAfterCutoff)
        /\ \A k \in 1..Len(state_cases) :
              LET c == IntermediateCases[KthOf(OpenedAfterCutoff, k)]
              IN  /\ state_cases[k].case_number = DictGet(c, "case_number").s
                  /\ state_cases[k].opened_date = DictGet(c, "opened_date").d
                  /\ state_cases[k].opened_date > after_date

\* C7 witness: the call returned, for an intermediate that holds a case opened
\* on the cutoff date and a case opened after it.
C7_Witness ==
    /\ entry = "updated_cases_since_date_from_intermediate"
    /\ scraper = "dummy"
    /\ run_pc = "returned"
    /\ OpenedAfterCutoff # {}
    /\ \E i \in 1..Len(IntermediateCases) :
          DictGet(IntermediateCases[i], "opened_date").d = after_date

\* C8: with the NYPUCScraper, updated_cases_since_date_intermediate and
\* updated_cases_since_date_from_intermediate raise on every call and never
\* return a result; get_new_cases_since_date therefore ends in an error
\* before any file is written and before any case is processed.
C8_UnsupportedUpdatedCasesFailFast ==
    scraper = "ny" =>
        /\ entry \in {"updated_cases_since_date_intermediate",
                      "updated_cases_since_date_from_intermediate"} =>
              /\ run_pc \in {"acquire", "call", "raised"}
              /\ run_pc = "raised" => run_error = "Exception"
        /\ entry = "get_new_cases_since_date" =>
              /\ run_pc \in {"acquire", "raised"}
              /\ run_pc = "raised" =>
                    /\ run_error = "Exception"
                    /\ steps = <<"updated_cases_since_date_intermediate">>
              /\ disk = NoFiles
              /\ state_cases = <<>>
              /\ case_index = 1
              /\ all_generic_cases = <<>>

\* C8 witness: get_new_cases_since_date with the NYPUCScraper has ended.
C8_Witness ==
    /\ scraper = "ny"
    /\ entry = "get_new_cases_since_date"
    /\ run_pc = "raised"

---------------------------------------------------------------------------
(* Properties of the contract methods, checked under SpecContract *)

\* The filing dicts a Dummy filing intermediate encodes.
EncodedDummyFilings == DictGet(con_filing_intermediate.value, "filings").items

\* The filing rows of the document table a NYPUC filing intermediate holds
\* under "html": the item numbers the rows carry.
EncodedRows == BeautifulSoup(DictGet(con_filing_intermediate.value, "html")).rows

EncodedItemNos ==
    {EncodedRows[i].cells[6].text :
        i \in {j \in 1..Len(EncodedRows) : FilingRowParses(EncodedRows[j])}}

\* C6: filing_data_from_intermediate applied to the mapping returned by
\* filing_data_intermediate(case) succeeds and reconstructs every filing
\* encoded in the mapping, associated with the case id the mapping carries
\* (NYPUCScraper: parsed from the "html" value, tagged with the "docket_id"
\* value; DummyScraper: the entries of "filings", in order).
C6_FilingDataRoundTrip ==
    con_pc = "filings" =>
        /\ con_filings.status = "ok"
        /\ con_scraper = "dummy" =>
              /\ Len(con_filings.value) = Len(EncodedDummyFilings)
              /\ \A i \in 1..Len(EncodedDummyFilings) :
                    /\ con_filings.value[i].filing_id =
                          DictGet(EncodedDummyFilings[i], "filing_id").s
                    /\ con_filings.value[i].case_number =
                          DictGet(DictGet(con_filing_intermediate.value, "case"),
                                  "case_number").s
        /\ con_scraper = "ny" =>
              \A itemNo \in EncodedItemNos :
                 \E i \in 1..Len(con_filings.value) :
                    /\ con_filings.value[i].itemNo = itemNo
                    /\ con_filings.value[i].docket_id =
                          DictGet(con_filing_intermediate.value, "docket_id").s

\* C10: into_generic_case_data and into_generic_filing_data return a generic
\* record, without raising and without writing a file, for every state case
\* and state filing that the scraper's from_intermediate methods produced
\* (NYPUC rows with an empty or malformed date_filed text included).
C10_ConvertersTotalAndPure ==
    con_pc \in {"case_converted", "filing_converted"} =>
        /\ con_converted.status = "ok"
        /\ disk = NoFiles

---------------------------------------------------------------------------
(* Properties of the order of the steps of a run, checked under SpecRun *)

\* The steps of get_all_cases before the loop over the cases.
CaselistSteps ==
    <<"universal_caselist_intermediate", "save_caselist",
      "universal_caselist_from_intermediate">>

\* The position of a step in the loop body, 0 when it is no step of the body.
IterationPosition(step) ==
    IF \E n \in 1..Len(IterationSteps) : IterationSteps[n] = step
    THEN CHOOSE n \in 1..Len(IterationSteps) : IterationSteps[n] = step
    ELSE 0

\* The case a logged step belongs to: the number of loop bodies begun up to it.
CaseOfStep(i) ==
    Cardinality({j \in 1..i : steps[j] = "into_generic_case_data"})

\* Step i of the log has ended without an error: another step follows it, or
\* the run has not ended in an error.
StepCompleted(i) == i < Len(steps) \/ run_pc # "raised"

\* C11: in a run of get_all_cases the case-list intermediate is acquired,
\* then persisted to caselist.json, then parsed; each case, in case-list
\* order, goes through its steps in the order persist case, acquire, persist
\* intermediate, parse, persist filings, convert, and the next case starts
\* only after the last step of the case before it; a run whose acquisition
\* succeeded has the case list on disk once the persisting step is logged.
C11_FullRunStepOrder ==
    entry = "get_all_cases" =>
        /\ \A i \in 1..Len(steps) :
              IF i <= Len(CaselistSteps)
              THEN steps[i] = CaselistSteps[i]
              ELSE /\ IterationPosition(steps[i]) > 0
                   /\ IF i = Len(CaselistSteps) + 1
                      THEN IterationPosition(steps[i]) = 1
                      ELSE \/ IterationPosition(steps[i]) =
                                 IterationPosition(steps[i - 1]) + 1
                           \/ /\ IterationPosition(steps[i]) = 1
                              /\ IterationPosition(steps[i - 1]) >= 6
                   /\ CaseOfStep(i) <= Len(state_cases)
        /\ \A i \in 1..Len(steps) :
              steps[i] = "save_caselist" => CaselistPath \in DOMAIN disk
        /\ \A i \in 1..Len(steps) :
              (steps[i] = "save_case" /\ StepCompleted(i)) =>
                  CasePath(CaseNum(scraper, state_cases[CaseOfStep(i)])) \in DOMAIN disk

---------------------------------------------------------------------------
(* Properties of the interleaved per-case work, checked under SpecParallel *)

\* Every worker has ended: its loop body is done, or a step of it raised.
AllWorkersEnded == \A i \in 1..Len(par_cases) : par_pc[i] \in {0, 8}

\* process_cases over the same cases one after the other, from case k on,
\* each case being given the filing intermediate its worker acquired: the
\* files at the end and the generic filings returned.
RECURSIVE SequentialRun(_, _, _)
SequentialRun(k, files, out) ==
    IF k > Len(par_cases) THEN [files |-> files, generic |-> out]
    ELSE IF ProcessCaseBody(par_scraper, par_cases[k], files, par_acquired[k]).status
               = "raise"
    THEN [files |-> ProcessCaseBody(par_scraper, par_cases[k], files,
                                    par_acquired[k]).files,
          generic |-> <<>>]
    ELSE SequentialRun(k + 1,
             ProcessCaseBody(par_scraper, par_cases[k], files, par_acquired[k]).files,
             out \o ProcessCaseBody(par_scraper, par_cases[k], files,
                                    par_acquired[k]).generic)

\* A list as a multiset: how often each element occurs.
OccurrencesIn(list) ==
    [x \in {list[i] : i \in 1..Len(list)} |->
        Cardinality({i \in 1..Len(list) : list[i] = x})]

---------------------------------------------------------------------------
(* Properties of the browser sessions, checked under SpecBrowser *)

BrowserCallEnded == br_pc \in {"returned", "raised"}

\* C14: every browser session opened by process_docket or process_industry
\* is closed with quit() before the call returns or raises, whatever the
\* path (success, page-load timeout, any other error); at most one session is
\* open at any time; and a call in which an error occurred ends by raising
\* that error, never by returning a result.
C14_SessionsTornDownAndErrorsReraised ==
    /\ Cardinality(br_open) <= 1
    /\ (BrowserCallEnded \/ br_pc = "call") => br_open = {}
    /\ br_pc = "raised" =>
          /\ br_fault # ""
          /\ br_error = br_fault
          /\ br_result = PyUnbound
    /\ br_pc = "returned" =>
          /\ br_fault = ""
          /\ br_result = BrowserResult(br_call)
    /\ br_fault # "" => br_pc \in {"except", "finally", "raised"}

\* C14 witness: a process_docket call, made after an earlier call returned,
\* has started a session, timed out waiting for the page, and has raised.
C14_Witness ==
    /\ br_call = "process_docket"
    /\ br_pc = "raised"
    /\ br_error = "TimeoutError"
    /\ br_calls > 1
    /\ br_started = br_calls
    /\ br_open = {}

---------------------------------------------------------------------------
(* Properties of the ranking score, checked under SpecRank *)

\* The timestamp term of the score attach_ranker computed for a variant,
\* times 2^32.
TimestampTerm(att) ==
    attach_ranker(att).score - QualityValue(att.quality) * TimestampDivisor

\* C15: in the score quality.value + timestamp / 2^32 that
\* get_highest_quality_text computes for each text variant, the timestamp
\* term is at least 0 and below 1 for a timestamp below 2^32 seconds, so no
\* low-quality variant in that range scores as high as a high-quality one in
\* that range; from 2^32 seconds on the term is at least 1.
C15_TimestampTermBelowOneTier ==
    rank_pc = "done" =>
        /\ \A i \in 1..Len(text_objects) :
              /\ attach_ranker(text_objects[i]).status = "ok"
              /\ TimestampTerm(text_objects[i]) >= 0
              /\ text_objects[i].timestamp < TimestampDivisor =>
                    TimestampTerm(text_objects[i]) < TimestampDivisor
              /\ text_objects[i].timestamp >= TimestampDivisor =>
                    TimestampTerm(text_objects[i]) >= TimestampDivisor
        /\ \A i, j \in 1..Len(text_objects) :
              (/\ text_objects[i].quality = "low"
               /\ text_objects[j].quality = "high"
               /\ text_objects[i].timestamp < TimestampDivisor
               /\ text_objects[j].timestamp < TimestampDivisor) =>
                  attach_ranker(text_objects[i]).score <
                      attach_ranker(text_objects[j]).score

===========================================================================
